---- MODULE Spec2Model ----
(***************************************************************************)
(* The persistent widget store of the text-widget manager                  *)
(* (src/src/lib/storage.ts): LocalStorageService over the two localStorage *)
(* keys 'text-widgets' and 'text-widgets-backup'.                          *)
(*                                                                         *)
(* Strings are kept run-length encoded: a content string is a sequence of  *)
(* runs [c |-> class, n |-> count] in which adjacent runs differ in class. *)
(* The classes are                                                         *)
(*   "x", "y"  ordinary BMP characters (one UTF-16 unit, one code point)   *)
(*   "sp"      the space character                                         *)
(*   "nl"      another whitespace character kept by the control filter     *)
(*             (\n, \t, \r)                                                *)
(*   "ctl"     a control character of [\x00-\x08\x0B\x0C\x0E-\x1F\x7F]     *)
(*   "emo"     an astral character (two UTF-16 units, one code point)      *)
(*   "hi"      a lone high surrogate (one UTF-16 unit, one code point)     *)
(* so that the 5000-unit cap of the source is modelled with its own value. *)
(***************************************************************************)
EXTENDS Integers, Sequences, FiniteSets, TLC

VARIABLES
  primary,     \* the text under 'text-widgets'
  backup,      \* the text under 'text-widgets-backup'
  available,   \* whether localStorage can be written (isStorageAvailable)
  now,         \* the clock read by new Date()
  call,        \* the store call of each caller: its position and locals
  lastSaved,   \* history: the list of the last saveWidgets that went through
  sanitizeArg, \* the argument of a sanitizeContent call
  sanitized,   \* what that call returned or threw
  clock,       \* the time in milliseconds on the page of useWidgets
  timer,       \* the pending timer of debouncedUpdate and its arguments
  mounted,     \* whether the component that uses useWidgets is mounted
  burst,       \* history: the edits since the timer was last started afresh
  mutations,   \* history: the updateWidgetMutation.mutate calls since the last edit
  lastMutation,\* history: the arguments and time of the last mutate call
  mutated,     \* history: the arguments of the mutate calls since burst began
  cancelled,   \* history: whether the timer of the last edit was cancelled
  edits,       \* history: how many edits were made
  textareaContent, \* the content state of a TextWidget: the text in its textarea
  validation,  \* validateWidgetContent(content) of its render
  characterCountColor,   \* the class of the character-count indicator
  characterCountMessage, \* the text of the character-count indicator
  operation,   \* a run of the QueryClient: a query or a mutation
  failures,    \* the errors its attempts failed with, and whether each was retried
  queryData,   \* the data of the ['widgets'] query in the QueryClient cache
  query,       \* the fetch of that query: whether it is in flight, its failures
  mutation     \* the update or delete mutation of each caller

storeVars == <<primary, backup, available, now, call, lastSaved>>
sanitizerVars == <<sanitizeArg, sanitized>>
hookVars ==
  <<clock, timer, mounted, burst, mutations, lastMutation, mutated, cancelled,
    edits>>
widgetVars == <<textareaContent, validation, characterCountColor, characterCountMessage>>
retryVars == <<operation, failures>>
cacheVars == <<queryData, query, mutation>>
vars == <<storeVars, sanitizerVars, hookVars, widgetVars, retryVars, cacheVars>>

-----------------------------------------------------------------------------
(* Bounds of the model *)

MaxLen == 2        \* addWidget is called while fewer widgets are stored
MaxTime == 2       \* the clock runs over 1..MaxTime
MaxRuns == 3       \* runs of equal characters in a sanitizeContent argument
QuotaMargin == 1   \* serialized sizes lie within QuotaMargin bytes of the quota
MaxEdits == 3      \* edits made on the page

(* Program constants *)

MAX_CONTENT_LENGTH == 5000     \* .slice(0, 5000)
DEBOUNCE_WAIT == 500           \* useDebouncedCallback(..., 500)
MAX_CHARACTERS == 5000         \* WIDGET_LIMITS.MAX_CHARACTERS
WARNING_THRESHOLD == 4500      \* WIDGET_LIMITS.WARNING_THRESHOLD

-----------------------------------------------------------------------------
(* JavaScript values *)

Str(s) == [t |-> "string", v |-> s]
Undefined == [t |-> "undefined"]
Null == [t |-> "null"]
DateOf(ms) == [t |-> "Date", valid |-> TRUE, ms |-> ms]
InvalidDate == [t |-> "Date", valid |-> FALSE, ms |-> 0]

\* The text of a timestamp string: an ISO-8601 instant, or text no Date parses.
IsoString(ms) == [t |-> "string", iso |-> TRUE, ms |-> ms]
BadTimeString == [t |-> "string", iso |-> FALSE, ms |-> 0]

IsString(x) == x.t = "string"

\* JavaScript truthiness of a timestamp field (createdAt, updatedAt):
\* undefined and null are falsy, a Date object (valid or not) and a non-empty
\* string are truthy.
Truthy(x) == x.t \in {"string", "Date"}

\* Date.prototype.toJSON as used by JSON.stringify: the ISO string of a valid
\* Date (millisecond precision), null for an Invalid Date.
DateToJSON(d) ==
  IF d.t = "Date" THEN (IF d.valid THEN IsoString(d.ms) ELSE Null) ELSE d

\* new Date(value) for a decoded JSON value.
NewDate(x) ==
  CASE x.t = "string" -> (IF x.iso THEN DateOf(x.ms) ELSE InvalidDate)
    [] x.t = "null" -> DateOf(0)
    [] x.t = "Date" -> x
    [] OTHER -> InvalidDate

-----------------------------------------------------------------------------
(* Strings as runs *)

Run(c, n) == [c |-> c, n |-> n]

IsControl(c) == c = "ctl"
IsWhitespace(c) == c \in {"sp", "nl"}

\* UTF-16 code units (String.prototype.length) and Unicode code points
\* ([...s].length) of a run and of a string.
RunUnits(r) == IF r.c = "emo" THEN 2 * r.n ELSE r.n

RECURSIVE Units(_)
Units(s) == IF s = <<>> THEN 0 ELSE RunUnits(Head(s)) + Units(Tail(s))

RECURSIVE CodePoints(_)
CodePoints(s) == IF s = <<>> THEN 0 ELSE Head(s).n + CodePoints(Tail(s))

\* Appending a run to a string keeps adjacent runs of one class merged.
AppendRun(s, r) ==
  IF r.n = 0 THEN s
  ELSE IF s # <<>> /\ s[Len(s)].c = r.c
       THEN [s EXCEPT ![Len(s)] = Run(r.c, s[Len(s)].n + r.n)]
       ELSE Append(s, r)

RECURSIVE Concat(_, _)
Concat(s, t) == IF t = <<>> THEN s ELSE Concat(AppendRun(s, Head(t)), Tail(t))

\* A replace that removes nothing.
KeepControl(s) == s

\* .replace(/[\x00-\x08\x0B\x0C\x0E-\x1F\x7F]/g, '')
RECURSIVE RemoveControl(_)
RemoveControl(s) ==
  IF s = <<>> THEN <<>>
  ELSE LET rest == RemoveControl(Tail(s))
       IN IF IsControl(Head(s).c) THEN rest ELSE Concat(<<Head(s)>>, rest)

\* .replace(/\s+/g, ' '): every maximal run of whitespace becomes one space.
RECURSIVE NormalizeWhitespace(_)
NormalizeWhitespace(s) ==
  IF s = <<>> THEN <<>>
  ELSE LET rest == NormalizeWhitespace(Tail(s))
       IN IF IsWhitespace(Head(s).c)
          THEN (IF rest # <<>> /\ rest[1].c = "sp" THEN rest
                ELSE <<Run("sp", 1)>> \o rest)
          ELSE Concat(<<Head(s)>>, rest)

\* .trim()
RECURSIVE TrimStart(_)
TrimStart(s) ==
  IF s # <<>> /\ IsWhitespace(Head(s).c) THEN TrimStart(Tail(s)) ELSE s

RECURSIVE TrimEnd(_)
TrimEnd(s) ==
  IF s # <<>> /\ IsWhitespace(s[Len(s)].c)
  THEN TrimEnd(SubSeq(s, 1, Len(s) - 1)) ELSE s

Trim(s) == TrimEnd(TrimStart(s))

\* .slice(0, k): the first k UTF-16 code units. A cut inside an astral
\* character keeps its high surrogate alone.
RECURSIVE Slice(_, _)
Slice(s, k) ==
  IF s = <<>> \/ k <= 0 THEN <<>>
  ELSE LET r == Head(s)
       IN IF RunUnits(r) <= k
          THEN Concat(<<r>>, Slice(Tail(s), k - RunUnits(r)))
          ELSE IF r.c = "emo"
               THEN AppendRun(AppendRun(<<>>, Run("emo", k \div 2)),
                              Run("hi", k % 2))
               ELSE <<Run(r.c, k)>>

\* The chain of sanitizeContent for a string.
SanitizeString(s) ==
  Slice(Trim(NormalizeWhitespace(RemoveControl(s))), MAX_CONTENT_LENGTH)

\* sanitizeContent(content): throws INVALID_TYPE for a non-string.
sanitizeContent(content) ==
  IF ~IsString(content)
  THEN [threw |-> TRUE, code |-> "INVALID_TYPE", recoverable |-> FALSE,
        value |-> Str(<<>>)]
  ELSE [threw |-> FALSE, code |-> "", recoverable |-> FALSE,
        value |-> Str(SanitizeString(content.v))]

-----------------------------------------------------------------------------
(* Widgets and the two localStorage items *)

STORAGE_KEY == "text-widgets"
STORAGE_BACKUP_KEY == "text-widgets-backup"
MAX_STORAGE_SIZE == 5242880    \* 5 * 1024 * 1024

\* An object with the four TextWidget properties; a property that is not
\* there is Undefined.
Widget(id, content, createdAt, updatedAt) ==
  [t |-> "object", id |-> id, content |-> content,
   createdAt |-> createdAt, updatedAt |-> updatedAt]

ArrayOf(items) == [t |-> "array", items |-> items]
Bool(b) == [t |-> "boolean", b |-> b]

\* The text held under a key (localStorage.getItem): no item, the empty
\* string, text that is not JSON, JSON of an object without a widgets array,
\* JSON of an array, JSON of a backup record.
NoItem == [kind |-> "absent"]
EmptyText == [kind |-> "empty"]
GarbageText == [kind |-> "garbage"]
NonArrayText == [kind |-> "nonarray"]
ArrayText(items) == [kind |-> "array", items |-> items]
BackupText(items, ts) ==
  [kind |-> "backup", widgets |-> items, timestamp |-> ts, version |-> "1.0"]

\* JSON.stringify of one widget: Date properties go through toJSON, string
\* properties are kept, properties that are undefined are left out.
JsonOfWidget(w) ==
  IF w.t # "object" THEN Null
  ELSE Widget(w.id, w.content, DateToJSON(w.createdAt), DateToJSON(w.updatedAt))

JsonOfWidgets(ws) == [i \in 1..Len(ws) |-> JsonOfWidget(ws[i])]

\* UTF-8 bytes of a string inside JSON text (escapes included).
CharBytes(c) ==
  CASE c \in {"x", "y", "sp"} -> 1
    [] c = "nl" -> 2
    [] c = "emo" -> 4
    [] OTHER -> 6

RECURSIVE StringBytes(_)
StringBytes(s) ==
  IF s = <<>> THEN 0 ELSE Head(s).n * CharBytes(Head(s).c) + StringBytes(Tail(s))

JsonValueBytes(x) ==
  CASE x.t = "string" -> (IF "iso" \in DOMAIN x THEN 26
                          ELSE 2 + StringBytes(x.v))
    [] x.t = "null" -> 4
    [] OTHER -> 0

\* {"id":...,"content":...,"createdAt":...,"updatedAt":...}
JsonElementBytes(e) ==
  IF e.t # "object" THEN 4
  ELSE 44 + JsonValueBytes(e.id) + JsonValueBytes(e.content)
          + JsonValueBytes(e.createdAt) + JsonValueBytes(e.updatedAt)

RECURSIVE JsonElementsBytes(_)
JsonElementsBytes(es) ==
  IF es = <<>> THEN 0
  ELSE JsonElementBytes(Head(es)) + (IF Len(es) > 1 THEN 1 ELSE 0)
       + JsonElementsBytes(Tail(es))

\* new Blob([JSON.stringify(validatedWidgets)]).size
DataSize(es) == 2 + JsonElementsBytes(es)

\* checkStorageQuota(dataSize)
checkStorageQuota(dataSize) == dataSize < MAX_STORAGE_SIZE

\* A shape check that does not look at the timestamps.
validateWidgetWithoutTimestamps(widget) ==
  /\ widget.t = "object"
  /\ IsString(widget.id)
  /\ IsString(widget.content)

\* validateWidget(widget)
validateWidget(widget) ==
  /\ widget.t = "object"
  /\ IsString(widget.id)
  /\ IsString(widget.content)
  /\ Truthy(widget.createdAt)
  /\ Truthy(widget.updatedAt)

\* Errors and outcomes
StorageError(code, recoverable) ==
  [threw |-> TRUE, code |-> code, recoverable |-> recoverable]
NoError == [threw |-> FALSE, code |-> "", recoverable |-> FALSE]

\* A loop that gives up at the first invalid element instead of skipping it.
RECURSIVE ValidWidgetsUntilInvalid(_)
ValidWidgetsUntilInvalid(parsed) ==
  IF parsed = <<>> THEN <<>>
  ELSE LET widget == Head(parsed)
       IN IF validateWidget(widget)
          THEN <<Widget(widget.id, sanitizeContent(widget.content).value,
                        NewDate(widget.createdAt), NewDate(widget.updatedAt))>>
               \o ValidWidgetsUntilInvalid(Tail(parsed))
          ELSE <<>>

\* The for loop of parseStoredWidgets over a decoded array: valid elements
\* are kept, with content sanitized and timestamps turned into Dates.
RECURSIVE ValidWidgets(_)
ValidWidgets(parsed) ==
  IF parsed = <<>> THEN <<>>
  ELSE LET widget == Head(parsed)
       IN IF validateWidget(widget)
          THEN <<Widget(widget.id, sanitizeContent(widget.content).value,
                        NewDate(widget.createdAt), NewDate(widget.updatedAt))>>
               \o ValidWidgets(Tail(parsed))
          ELSE ValidWidgets(Tail(parsed))

RECURSIVE parseStoredWidgets(_, _)

\* attemptRecovery(): the widgets of the backup record, [] when there is
\* none or it cannot be used.
attemptRecovery(bk) ==
  IF bk.kind = "backup"
  THEN LET r == parseStoredWidgets(ArrayText(bk.widgets), bk)
       IN IF r.err.threw THEN <<>> ELSE r.widgets
  ELSE <<>>

\* A parseStoredWidgets whose PARSE_ERROR keeps StorageError's default
\* recoverable flag.
parseStoredWidgetsRecoverable(stored, bk) ==
  IF stored.kind \in {"absent", "empty"}
  THEN [err |-> NoError, widgets |-> <<>>, readBackup |-> FALSE]
  ELSE IF stored.kind = "array"
  THEN [err |-> NoError, widgets |-> ValidWidgets(stored.items),
        readBackup |-> FALSE]
  ELSE LET recovered == attemptRecovery(bk)
       IN IF Len(recovered) > 0
          THEN [err |-> NoError, widgets |-> recovered, readBackup |-> TRUE]
          ELSE [err |-> StorageError("PARSE_ERROR", TRUE), widgets |-> <<>>,
                readBackup |-> TRUE]

\* parseStoredWidgets(stored), with the text of the backup key as bk.
parseStoredWidgets(stored, bk) ==
  IF stored.kind \in {"absent", "empty"}
  THEN [err |-> NoError, widgets |-> <<>>, readBackup |-> FALSE]
  ELSE IF stored.kind = "array"
  THEN [err |-> NoError, widgets |-> ValidWidgets(stored.items),
        readBackup |-> FALSE]
  ELSE LET recovered == attemptRecovery(bk)
       IN IF Len(recovered) > 0
          THEN [err |-> NoError, widgets |-> recovered, readBackup |-> TRUE]
          ELSE [err |-> StorageError("PARSE_ERROR", FALSE), widgets |-> <<>>,
                readBackup |-> TRUE]

\* isStorageAvailable()
isStorageAvailable == available

Resolved(value) ==
  [status |-> "resolved", value |-> value, code |-> "", recoverable |-> FALSE]
Rejected(code, recoverable) ==
  [status |-> "rejected", value |-> Null, code |-> code,
   recoverable |-> recoverable]

\* A getWidgets() whose catch rejects with every error it catches.
GetWidgetsRejectingAll ==
  LET thrown == IF ~isStorageAvailable
                THEN [err |-> StorageError("STORAGE_UNAVAILABLE", TRUE),
                      widgets |-> <<>>, readBackup |-> FALSE]
                ELSE parseStoredWidgets(primary, backup)
  IN IF thrown.err.threw
     THEN [result |-> Rejected(thrown.err.code, thrown.err.recoverable),
           readPrimary |-> isStorageAvailable,
           readBackup |-> thrown.readBackup]
     ELSE [result |-> Resolved(ArrayOf(thrown.widgets)),
           readPrimary |-> TRUE,
           readBackup |-> thrown.readBackup]

\* The timer callback of getWidgets(): what the promise settles with, and
\* whether the backup key was read.
GetWidgetsOutcome ==
  LET thrown == IF ~isStorageAvailable
                THEN [err |-> StorageError("STORAGE_UNAVAILABLE", TRUE),
                      widgets |-> <<>>, readBackup |-> FALSE]
                ELSE parseStoredWidgets(primary, backup)
  IN IF thrown.err.threw
     THEN [result |-> (IF ~thrown.err.recoverable
                       THEN Rejected(thrown.err.code, FALSE)
                       ELSE Resolved(ArrayOf(<<>>))),
           readPrimary |-> isStorageAvailable,
           readBackup |-> thrown.readBackup]
     ELSE [result |-> Resolved(ArrayOf(thrown.widgets)),
           readPrimary |-> TRUE,
           readBackup |-> thrown.readBackup]

\* A createBackup that leaves the backup key as it is.
createBackupSkipped(widgets, t, setItemOk) == backup

\* createBackup(widgets): the text of the backup key afterwards. The write is
\* skipped when storage is unavailable and is lost when setItem throws.
createBackup(widgets, t, setItemOk) ==
  IF isStorageAvailable /\ setItemOk
  THEN BackupText(JsonOfWidgets(widgets), IsoString(t))
  ELSE backup

\* The map of saveWidgets: each widget with its content sanitized.
SanitizedWidgets(ws) ==
  [i \in 1..Len(ws) |->
     [ws[i] EXCEPT !.content = sanitizeContent(ws[i].content).value]]

\* The timer callback of saveWidgets(widgets): what the promise settles with,
\* the two keys afterwards, the keys written, in order, and the keys whose
\* setItem threw. t is the clock
\* read by createBackup; backupOk and primaryOk tell whether the setItem of
\* the backup key and of the primary key go through.
SaveWidgetsOutcome(widgets, t, backupOk, primaryOk) ==
  LET unchanged(result) ==
        [result |-> result, primary |-> primary, backup |-> backup,
         writes |-> <<>>, failed |-> <<>>]
  IN IF ~isStorageAvailable
     THEN unchanged(Rejected("STORAGE_UNAVAILABLE", FALSE))
     ELSE IF widgets.t # "array"
     THEN unchanged(Rejected("INVALID_INPUT", FALSE))
     ELSE IF \E i \in 1..Len(widgets.items) : ~validateWidget(widgets.items[i])
     THEN unchanged(Rejected("INVALID_WIDGET", FALSE))
     ELSE LET validatedWidgets == SanitizedWidgets(widgets.items)
              dataStr == ArrayText(JsonOfWidgets(validatedWidgets))
              dataSize == DataSize(dataStr.items)
              backedUp == createBackup(validatedWidgets, t, backupOk)
              backupWrite == IF isStorageAvailable /\ backupOk
                             THEN <<STORAGE_BACKUP_KEY>> ELSE <<>>
              backupFailure == IF isStorageAvailable /\ ~backupOk
                               THEN <<STORAGE_BACKUP_KEY>> ELSE <<>>
          IN IF ~checkStorageQuota(dataSize)
             THEN unchanged(Rejected("QUOTA_EXCEEDED", TRUE))
             ELSE IF ~primaryOk
             THEN [result |-> Rejected("SAVE_ERROR", TRUE),
                   primary |-> primary, backup |-> backedUp,
                   writes |-> backupWrite,
                   failed |-> backupFailure \o <<STORAGE_KEY>>]
             ELSE [result |-> Resolved(Undefined),
                   primary |-> dataStr, backup |-> backedUp,
                   writes |-> backupWrite \o <<STORAGE_KEY>>,
                   failed |-> backupFailure]

-----------------------------------------------------------------------------
(* Inputs *)

IdA == Str(<<Run("x", 1)>>)
IdB == Str(<<Run("y", 1)>>)

Plain == Str(<<Run("x", 1)>>)
Other == Str(<<Run("y", 1)>>)
\* " x\u0000\n\n🎉y": a leading space, a control character, a whitespace
\* run, an emoji
Dirty == Str(<<Run("sp", 1), Run("x", 1), Run("ctl", 1), Run("nl", 2),
               Run("emo", 1), Run("y", 1)>>)
\* 2501 astral characters: 5002 UTF-16 units
Astral == Str(<<Run("emo", 2501)>>)

W1 == Widget(IdA, Plain, DateOf(1), DateOf(1))
W2 == Widget(IdB, Dirty, DateOf(2), DateOf(1))
W3 == Widget(IdA, Astral, InvalidDate, DateOf(1))
W4 == Widget(IdB, Plain, Undefined, DateOf(1))

SampleWidgets == {W1, W2, W3, W4}
SampleIds == {IdA, IdB}
SampleContents == {Other, Dirty}

\* The lists callers pass to saveWidgets; null stands for an argument that
\* is not an array.
SampleLists ==
  {<<>>, <<W1>>, <<W2>>, <<W1, W2>>, <<W2, W1>>, <<W3>>, <<W1, W3>>,
   <<W1, W4>>}

SaveArguments == {ArrayOf(ws) : ws \in SampleLists} \cup {Null}

\* What something other than the store may leave under the two keys: the
\* primary text and the backup text.
E1 == Widget(IdA, Plain, IsoString(1), IsoString(1))
E2 == Widget(IdB, Plain, Undefined, Undefined)
E3 == Widget(IdB, Other, BadTimeString, IsoString(1))

Store(p, b) == [primary |-> p, backup |-> b]

ForeignStores ==
  {Store(NoItem, NoItem), Store(EmptyText, NoItem),
   Store(GarbageText, NoItem), Store(NonArrayText, NoItem),
   Store(ArrayText(<<E1, E2>>), NoItem), Store(ArrayText(<<E3, E1>>), NoItem),
   Store(ArrayText(<<Null>>), GarbageText),
   Store(GarbageText, GarbageText), Store(GarbageText, NonArrayText),
   Store(NonArrayText, BackupText(<<>>, IsoString(1))),
   Store(GarbageText, BackupText(<<E2>>, IsoString(1))),
   Store(GarbageText, BackupText(<<E2, E1>>, IsoString(1)))}

UndecodableTexts == {GarbageText, NonArrayText}

-----------------------------------------------------------------------------
(* Calls *)

\* The caller that awaits each call before it makes the next one, and the
\* callers that do not wait for one another.
Procs == {"p1"}
Racers == {"p1", "p2"}

NoResult == [status |-> "pending", value |-> Null, code |-> "",
             recoverable |-> FALSE]

IdleCall ==
  [op |-> "none", pc |-> "idle", widgets |-> Null, widget |-> Null,
   id |-> Null, content |-> Null, result |-> NoResult, writes |-> <<>>,
   loaded |-> Null, readPrimary |-> FALSE, readBackup |-> FALSE,
   before |-> Null, failed |-> <<>>, concurrent |-> FALSE]

NothingSaved == [kind |-> "none"]

Pending == [threw |-> FALSE, code |-> "pending", recoverable |-> FALSE,
            value |-> Null]

StoreInit ==
  /\ primary = NoItem
  /\ backup = NoItem
  /\ available = TRUE
  /\ now = 1
  /\ call = [p \in Racers |-> IdleCall]
  /\ lastSaved = NothingSaved

\* useWidgets as it is first rendered: no edit was made, no timer is set.
NoTimer == [set |-> FALSE]
NoMutation == [called |-> FALSE]

HookInit ==
  /\ clock = 0
  /\ timer = NoTimer
  /\ mounted = TRUE
  /\ burst = <<>>
  /\ mutations = 0
  /\ lastMutation = NoMutation
  /\ mutated = {}
  /\ cancelled = FALSE
  /\ edits = 0

\* The QueryClient with nothing run yet.
RetryInit ==
  /\ operation = "none"
  /\ failures = <<>>

\* A TextWidget with an empty textarea that has not rendered yet.
NotRendered == [rendered |-> FALSE]

WidgetInit ==
  /\ textareaContent = Str(<<>>)
  /\ validation = NotRendered
  /\ characterCountColor = NotRendered
  /\ characterCountMessage = NotRendered

\* useWidgets as it mounts: useQuery starts the first fetch, nothing is
\* cached, no mutation runs.
CacheInit ==
  /\ queryData = Undefined
  /\ query = [fetching |-> TRUE, failureCount |-> 0, status |-> "pending"]
  /\ mutation = [p \in Racers |->
                   [state |-> "idle", kind |-> "none", id |-> Null,
                    content |-> Null, previousWidgets |-> Undefined,
                    patched |-> Undefined, failureCount |-> 0,
                    settled |-> "none", rollback |-> "none",
                    overlapped |-> FALSE]]

Init ==
  /\ StoreInit
  /\ sanitizeArg = Null
  /\ sanitized = Pending
  /\ HookInit
  /\ WidgetInit
  /\ RetryInit
  /\ CacheInit

Idle(p) == call[p].pc = "idle"

\* A call as it starts; before keeps what the two keys hold at that moment,
\* concurrent whether a call of another caller is in flight.
Begin(p, op, pc) ==
  [IdleCall EXCEPT !.op = op, !.pc = pc, !.before = Store(primary, backup),
                   !.concurrent = \E q \in Racers \ {p} :
                                    call[q].pc \in {"get", "save"}]

\* getWidgets(): the timer is set.
StartGetWidgets(p) ==
  /\ Idle(p)
  /\ call' = [call EXCEPT ![p] = Begin(p, "getWidgets", "get")]
  /\ UNCHANGED <<primary, backup, available, now, lastSaved>>
  /\ UNCHANGED <<sanitizerVars, hookVars, widgetVars, retryVars, cacheVars>>

\* saveWidgets(widgets): the timer is set.
StartSaveWidgets(p) ==
  /\ Idle(p)
  /\ \E ws \in SaveArguments :
       call' = [call EXCEPT ![p] =
                  [Begin(p, "saveWidgets", "save") EXCEPT !.widgets = ws]]
  /\ UNCHANGED <<primary, backup, available, now, lastSaved>>
  /\ UNCHANGED <<sanitizerVars, hookVars, widgetVars, retryVars, cacheVars>>

\* addWidget(widget): runs up to the await of getWidgets().
StartAddWidget(p) ==
  /\ Idle(p)
  /\ \E w \in SampleWidgets :
       call' = [call EXCEPT ![p] =
                  [Begin(p, "addWidget", "get") EXCEPT !.widget = w]]
  /\ UNCHANGED <<primary, backup, available, now, lastSaved>>
  /\ UNCHANGED <<sanitizerVars, hookVars, widgetVars, retryVars, cacheVars>>

\* `!id || typeof id !== 'string'`
BadId(id) == ~IsString(id) \/ id.v = <<>>

\* updateWidget(id, content): the checks of the arguments, sanitizeContent,
\* then the await of getWidgets().
StartUpdateWidget(p) ==
  /\ Idle(p)
  /\ \E id \in SampleIds \cup {Str(<<>>)}, content \in SampleContents \cup {Undefined} :
       LET c == [Begin(p, "updateWidget", "get") EXCEPT !.id = id]
       IN call' = [call EXCEPT ![p] =
            IF BadId(id)
            THEN [c EXCEPT !.pc = "done",
                           !.result = Rejected("INVALID_ID", FALSE)]
            ELSE IF ~IsString(content)
            THEN [c EXCEPT !.pc = "done",
                           !.result = Rejected("INVALID_CONTENT", FALSE)]
            ELSE [c EXCEPT !.content = sanitizeContent(content).value]]
  /\ UNCHANGED <<primary, backup, available, now, lastSaved>>
  /\ UNCHANGED <<sanitizerVars, hookVars, widgetVars, retryVars, cacheVars>>

\* deleteWidget(id): the check of the argument, then the await of
\* getWidgets().
StartDeleteWidget(p) ==
  /\ Idle(p)
  /\ \E id \in SampleIds \cup {Str(<<>>)} :
       LET c == [Begin(p, "deleteWidget", "get") EXCEPT !.id = id]
       IN call' = [call EXCEPT ![p] =
            IF BadId(id)
            THEN [c EXCEPT !.pc = "done",
                           !.result = Rejected("INVALID_ID", FALSE)]
            ELSE c]
  /\ UNCHANGED <<primary, backup, available, now, lastSaved>>
  /\ UNCHANGED <<sanitizerVars, hookVars, widgetVars, retryVars, cacheVars>>

\* A findIndex that answers the last index when no widget has the id.
FindIndexOrLast(ws, id) ==
  IF \E i \in 1..Len(ws) : ws[i].id = id
  THEN CHOOSE i \in 1..Len(ws) :
         /\ ws[i].id = id
         /\ \A j \in 1..(i - 1) : ws[j].id # id
  ELSE Len(ws)

\* widgets.findIndex(w => w.id === id): 0 when there is none.
FindIndex(ws, id) ==
  IF \E i \in 1..Len(ws) : ws[i].id = id
  THEN CHOOSE i \in 1..Len(ws) :
         /\ ws[i].id = id
         /\ \A j \in 1..(i - 1) : ws[j].id # id
  ELSE 0

\* widgets.unshift(widget)
Unshift(ws, w) == <<w>> \o ws

\* A push that forgets the list.
PushOntoEmpty(ws, w) == <<w>>

\* widgets.push(widget)
Push(ws, w) == Append(ws, w)

\* widgets.filter(w => w.id !== id)
FilterOut(ws, id) == SelectSeq(ws, LAMBDA w : w.id # id)

\* The timer callback of getWidgets() and what the caller awaiting it does
\* with the outcome, up to its next await. t is the clock read by updateWidget.
GetStep(p) ==
  /\ call[p].pc = "get"
  /\ call[p].op = "addWidget" /\ GetWidgetsOutcome.result.status = "resolved"
       => Len(GetWidgetsOutcome.result.value.items) < MaxLen
  /\ \E t \in now..MaxTime :
       LET c == call[p]
           got == GetWidgetsOutcome
           seen == [c EXCEPT !.readPrimary = got.readPrimary,
                             !.readBackup = got.readBackup,
                             !.loaded = got.result.value]
           settle(result) == [seen EXCEPT !.pc = "done", !.result = result]
           ws == got.result.value.items
           widgetIndex == FindIndex(ws, c.id)
           updated == [ws[widgetIndex] EXCEPT !.content = c.content,
                                              !.updatedAt = DateOf(t)]
           filteredWidgets == FilterOut(ws, c.id)
       IN /\ call' = [call EXCEPT ![p] =
               IF got.result.status = "rejected" THEN settle(got.result)
               ELSE CASE c.op = "getWidgets" -> settle(got.result)
                 [] c.op = "addWidget" ->
                      [seen EXCEPT !.pc = "save",
                                   !.widgets = ArrayOf(Push(ws, c.widget))]
                 [] c.op = "updateWidget" ->
                      IF widgetIndex = 0 THEN settle(Resolved(Null))
                      ELSE [seen EXCEPT
                              !.pc = "save",
                              !.widgets = ArrayOf([ws EXCEPT ![widgetIndex] = updated]),
                              !.widget = updated]
                 [] c.op = "deleteWidget" ->
                      IF widgetIndex = 0 \/ Len(filteredWidgets) = Len(ws)
                      THEN settle(Resolved(Bool(FALSE)))
                      ELSE [seen EXCEPT !.pc = "save",
                                        !.widgets = ArrayOf(filteredWidgets)]]
          /\ now' = IF c.op = "updateWidget" /\ got.result.status = "resolved"
                       /\ widgetIndex # 0
                    THEN t ELSE now
  /\ UNCHANGED <<primary, backup, available, lastSaved>>
  /\ UNCHANGED <<sanitizerVars, hookVars, widgetVars, retryVars, cacheVars>>

\* What is known of the last save: the list given to saveWidgets, whether the
\* backup write of that save went through, and whether each key still holds
\* what that save left there.
Saved(ws, backupWritten) ==
  [kind |-> "saved", widgets |-> ws, backupWritten |-> backupWritten,
   primaryIntact |-> TRUE, backupIntact |-> TRUE]

\* The timer callback of saveWidgets() and what the caller awaiting it does
\* with the outcome. SetItemOutcomes says whether a setItem may throw while
\* storage is available (a full quota).
SaveStepWith(p, SetItemOutcomes) ==
  /\ call[p].pc = "save"
  /\ \E backupOk \in SetItemOutcomes, primaryOk \in SetItemOutcomes :
       LET c == call[p]
           out == SaveWidgetsOutcome(c.widgets, now, backupOk, primaryOk)
           value == CASE c.op = "addWidget" -> c.widget
                      [] c.op = "updateWidget" -> c.widget
                      [] c.op = "deleteWidget" -> Bool(TRUE)
                      [] OTHER -> Undefined
       IN /\ call' = [call EXCEPT ![p] =
               [c EXCEPT !.pc = "done",
                         !.writes = out.writes,
                         !.failed = out.failed,
                         !.result = IF out.result.status = "resolved"
                                    THEN Resolved(value) ELSE out.result]]
          /\ primary' = out.primary
          /\ backup' = out.backup
          /\ lastSaved' =
               IF out.result.status = "resolved"
               THEN Saved(c.widgets.items, Len(out.writes) = 2)
               ELSE IF out.writes # <<>> /\ lastSaved.kind = "saved"
               THEN [lastSaved EXCEPT !.backupIntact = FALSE]
               ELSE lastSaved
  /\ UNCHANGED <<available, now>>
  /\ UNCHANGED <<sanitizerVars, hookVars, widgetVars, retryVars, cacheVars>>

\* Every setItem goes through while storage is available.
SaveStep(p) == SaveStepWith(p, {TRUE})

\* A setItem may throw.
SaveStepFailing(p) == SaveStepWith(p, BOOLEAN)

\* The caller takes the outcome; the next call may start.
Return(p) ==
  /\ call[p].pc = "done"
  /\ call' = [call EXCEPT ![p] = IdleCall]
  /\ UNCHANGED <<primary, backup, available, now, lastSaved>>
  /\ UNCHANGED <<sanitizerVars, hookVars, widgetVars, retryVars, cacheVars>>

\* Something other than the store replaces what the two keys hold.
SetStore ==
  /\ \A p \in Racers : Idle(p)
  /\ \E store \in ForeignStores :
       /\ Store(primary, backup) # store
       /\ primary' = store.primary
       /\ backup' = store.backup
  /\ lastSaved' = NothingSaved
  /\ UNCHANGED <<available, now, call>>
  /\ UNCHANGED <<sanitizerVars, hookVars, widgetVars, retryVars, cacheVars>>

\* The primary key is overwritten with text that does not decode as a JSON
\* array; the backup key is left alone.
OverwritePrimary ==
  /\ \A p \in Racers : Idle(p)
  /\ \E text \in UndecodableTexts :
       /\ text # primary
       /\ primary' = text
  /\ lastSaved' = IF lastSaved.kind = "saved" /\ lastSaved.backupWritten
                     /\ lastSaved.backupIntact
                  THEN [lastSaved EXCEPT !.primaryIntact = FALSE]
                  ELSE NothingSaved
  /\ UNCHANGED <<backup, available, now, call>>
  /\ UNCHANGED <<sanitizerVars, hookVars, widgetVars, retryVars, cacheVars>>

\* localStorage becomes unusable (setItem throws) or usable again.
SetAvailable ==
  /\ \A p \in Racers : Idle(p)
  /\ available' = ~available
  /\ UNCHANGED <<primary, backup, now, call, lastSaved>>
  /\ UNCHANGED <<sanitizerVars, hookVars, widgetVars, retryVars, cacheVars>>

Next ==
  \/ \E p \in Procs :
       \/ StartGetWidgets(p)
       \/ StartSaveWidgets(p)
       \/ StartAddWidget(p)
       \/ StartUpdateWidget(p)
       \/ StartDeleteWidget(p)
       \/ GetStep(p)
       \/ SaveStep(p)
       \/ Return(p)
  \/ SetStore
  \/ OverwritePrimary
  \/ SetAvailable

Spec == Init /\ [][Next]_vars

\* The store with setItem calls that may throw.
FaultNext ==
  \/ \E p \in Procs :
       \/ StartGetWidgets(p)
       \/ StartSaveWidgets(p)
       \/ GetStep(p)
       \/ SaveStepFailing(p)
       \/ Return(p)
  \/ OverwritePrimary

FaultSpec == Init /\ [][FaultNext]_vars

-----------------------------------------------------------------------------
(* Two callers, one call each, neither waiting for the other *)

RaceNext ==
  \/ \E p \in Racers :
       \/ StartAddWidget(p)
       \/ StartUpdateWidget(p)
       \/ StartDeleteWidget(p)
       \/ GetStep(p)
       \/ SaveStep(p)
  \/ SetStore

RaceSpec == Init /\ [][RaceNext]_vars

-----------------------------------------------------------------------------
(* saveWidgets near the quota *)

\* Ids long enough for the serialized list to come near MAX_STORAGE_SIZE:
\* the id is not sanitized and has no length limit. 103, 109 and 206 are the
\* bytes around such an id in the lists below.
LongIds ==
  {Str(<<Run("x", MAX_STORAGE_SIZE - k + d)>>) :
     k \in {103, 109, 206}, d \in (0 - QuotaMargin)..QuotaMargin}

LargeLists ==
  {<<Widget(id, c, DateOf(1), DateOf(1))>> : id \in LongIds, c \in {Plain, Dirty}}
  \cup {<<W1, Widget(id, Plain, DateOf(1), DateOf(1))>> : id \in LongIds}

\* saveWidgets(widgets) with a list near the quota: the timer is set.
StartSaveLarge(p) ==
  /\ Idle(p)
  /\ \E ws \in LargeLists :
       call' = [call EXCEPT ![p] =
                  [Begin(p, "saveWidgets", "save") EXCEPT !.widgets = ArrayOf(ws)]]
  /\ UNCHANGED <<primary, backup, available, now, lastSaved>>
  /\ UNCHANGED <<sanitizerVars, hookVars, widgetVars, retryVars, cacheVars>>

QuotaNext ==
  \E p \in Procs :
    \/ StartSaveLarge(p)
    \/ StartGetWidgets(p)
    \/ GetStep(p)
    \/ SaveStep(p)
    \/ Return(p)

QuotaSpec == Init /\ [][QuotaNext]_vars

-----------------------------------------------------------------------------
(* useWidgets: the debounced update of a widget's content                  *)
(* (src/unnamed/part_006). Home renders every TextWidget with the one      *)
(* updateWidget of its useWidgets(), so all widgets share one timer.       *)

\* The (id, content) pairs the page passes to updateWidget.
SampleEdits ==
  {<<IdA, Plain>>, <<IdA, Other>>, <<IdB, Plain>>, <<Str(<<>>), Plain>>,
   <<IdA, Undefined>>}

\* The pauses between two events on the page.
Pauses == {DEBOUNCE_WAIT - 1, DEBOUNCE_WAIT + 1}

\* A timer that runs as soon as it is set.
DueAtOnce(t) == t

\* When the timer set at time t runs: the wait of useDebouncedCallback.
DueTime(t) == t + DEBOUNCE_WAIT

TimerDue == timer.set /\ clock >= timer.due

\* updateWidget(id, content) of the hook, which is debouncedUpdate(id, content):
\* the pending timer is replaced by one for these arguments. A timer that is
\* due runs before the next event is handled.
debouncedUpdate ==
  /\ mounted
  /\ edits < MaxEdits
  /\ ~TimerDue
  /\ \E e \in SampleEdits :
       /\ timer' = [set |-> TRUE, id |-> e[1], content |-> e[2],
                    due |-> DueTime(clock)]
       /\ burst' = Append(IF timer.set THEN burst ELSE <<>>,
                          [id |-> e[1], content |-> e[2], at |-> clock])
  /\ mutations' = 0
  /\ mutated' = (IF timer.set THEN mutated ELSE {})
  /\ cancelled' = FALSE
  /\ edits' = edits + 1
  /\ UNCHANGED <<clock, mounted, lastMutation>>
  /\ UNCHANGED <<storeVars, sanitizerVars, widgetVars, retryVars, cacheVars>>

\* Whether the debounced callback goes on to updateWidgetMutation.mutate,
\* whose mutationFn is storageService.updateWidget(id, content).
CallsMutate(id, content) == ~(id = Str(<<>>)) /\ IsString(content)

\* The timer runs: the debounced callback with the last arguments.
TimerFires ==
  /\ TimerDue
  /\ timer' = NoTimer
  /\ IF CallsMutate(timer.id, timer.content)
     THEN /\ mutations' = mutations + 1
          /\ lastMutation' = [called |-> TRUE, id |-> timer.id,
                               content |-> timer.content, at |-> clock]
          /\ mutated' = mutated \cup {<<timer.id, timer.content>>}
     ELSE UNCHANGED <<mutations, lastMutation, mutated>>
  /\ UNCHANGED <<clock, mounted, burst, cancelled, edits>>
  /\ UNCHANGED <<storeVars, sanitizerVars, widgetVars, retryVars, cacheVars>>

\* Time passes, up to the moment the pending timer is due; the clock stops
\* after a pause for every edit and one more.
Advance ==
  /\ ~TimerDue
  /\ \E d \in Pauses :
       /\ clock + d <= (MaxEdits + 1) * (DEBOUNCE_WAIT + 1)
       /\ clock' = IF timer.set /\ clock + d > timer.due
                   THEN timer.due ELSE clock + d
  /\ UNCHANGED <<timer, mounted, burst, mutations, lastMutation, mutated,
               cancelled, edits>>
  /\ UNCHANGED <<storeVars, sanitizerVars, widgetVars, retryVars, cacheVars>>

\* cancelPendingUpdates(): debouncedUpdate.cancel()
CancelPendingUpdates ==
  /\ mounted
  /\ timer.set
  /\ timer' = NoTimer
  /\ cancelled' = TRUE
  /\ UNCHANGED <<clock, mounted, burst, mutations, lastMutation, mutated, edits>>
  /\ UNCHANGED <<storeVars, sanitizerVars, widgetVars, retryVars, cacheVars>>

\* The cleanup of the effect on unmount: debouncedUpdate.cancel()
Unmount ==
  /\ mounted
  /\ mounted' = FALSE
  /\ timer' = NoTimer
  /\ cancelled' = (cancelled \/ timer.set)
  /\ UNCHANGED <<clock, burst, mutations, lastMutation, mutated, edits>>
  /\ UNCHANGED <<storeVars, sanitizerVars, widgetVars, retryVars, cacheVars>>

DebounceNext ==
  \/ debouncedUpdate
  \/ TimerFires
  \/ Advance
  \/ CancelPendingUpdates
  \/ Unmount

DebounceSpec == Init /\ [][DebounceNext]_vars

-----------------------------------------------------------------------------
(* sanitizeContent on its own *)

RunClasses == {"x", "sp", "ctl", "emo"}
RunCounts == {1, 2500, 4999, 5001}
Runs == {Run(c, n) : c \in RunClasses, n \in RunCounts}

\* The strings of at most n runs.
RECURSIVE StringsUpTo(_)
StringsUpTo(n) ==
  IF n = 0 THEN {<<>>}
  ELSE LET shorter == StringsUpTo(n - 1)
       IN shorter \cup
          {Append(s, r) : s \in {u \in shorter : Len(u) = n - 1},
                          r \in Runs}

SampleTexts == {Str(s) : s \in {u \in StringsUpTo(MaxRuns) :
                  \A i \in 1..(Len(u) - 1) : u[i].c # u[i + 1].c}}
               \cup {Undefined, Null}

SanitizerInit ==
  /\ StoreInit
  /\ sanitizeArg \in SampleTexts
  /\ sanitized = Pending
  /\ HookInit
  /\ WidgetInit
  /\ RetryInit
  /\ CacheInit

\* sanitizeContent(sanitizeArg)
Sanitize ==
  /\ sanitized = Pending
  /\ sanitized' = sanitizeContent(sanitizeArg)
  /\ UNCHANGED <<sanitizeArg, storeVars, hookVars, widgetVars, retryVars, cacheVars>>

\* sanitizeContent of what an earlier call returned, as parseStoredWidgets
\* does with stored content.
SanitizeAgain ==
  /\ sanitized # Pending
  /\ ~sanitized.threw
  /\ sanitizeArg # sanitized.value
  /\ sanitizeArg' = sanitized.value
  /\ sanitized' = sanitizeContent(sanitized.value)
  /\ UNCHANGED <<storeVars, hookVars, widgetVars, retryVars, cacheVars>>

SanitizerNext == Sanitize \/ SanitizeAgain

SanitizerSpec == SanitizerInit /\ [][SanitizerNext]_vars

-----------------------------------------------------------------------------
(* TextWidget: the validation of the typed content and the character-count *)
(* indicator (src/src/lib/validation.ts, src/src/components/TextWidget.tsx) *)

\* validateWidgetContent(content). A "nl" character is read as \n. None of
\* the unsafe patterns (<script>, javascript:, data:text/html, vbscript:)
\* occurs in a string of the seven character classes. The texts of the errors
\* are kept without the numbers they interpolate.
validateWidgetContent(c) ==
  LET text == IF c \in {Null, Undefined} THEN <<>> ELSE c.v
      characterCount == CodePoints(text)
      utf8(r) == CASE r.c = "emo" -> 4 * r.n
                   [] r.c = "hi" -> 3 * r.n
                   [] OTHER -> r.n
      bytes[i \in 0..Len(text)] ==
        IF i = 0 THEN 0 ELSE bytes[i - 1] + utf8(text[i])
      breaks[i \in 0..Len(text)] ==
        IF i = 0 THEN 0
        ELSE breaks[i - 1] + (IF text[i].c = "nl" THEN text[i].n ELSE 0)
      byteSize == bytes[Len(text)]
      lineCount == breaks[Len(text)] + 1
      custom ==
        (IF characterCount > MAX_CHARACTERS
         THEN <<"Content exceeds maximum length">> ELSE <<>>)
        \o (IF byteSize > 50000
            THEN <<"Content size is too large for storage">> ELSE <<>>)
        \o (IF characterCount >= WARNING_THRESHOLD
               /\ characterCount < MAX_CHARACTERS
            THEN <<"Approaching character limit">> ELSE <<>>)
        \o (IF lineCount > 1000
            THEN <<"Too many line breaks (maximum 1000 lines)">> ELSE <<>>)
      \* widgetContentSchema.parse(content): z.string().max(5000) compares
      \* content.length, the number of UTF-16 units.
      zod == IF (\A i \in 1..Len(custom) :
                   custom[i] = "Approaching character limit")
                /\ Units(text) > 5000
             THEN <<"Content cannot exceed 5000 characters">> ELSE <<>>
      errors == custom \o zod
  IN [isValid |-> \/ Len(errors) = 0
                  \/ (Len(errors) = 1
                      /\ errors[1] = "Approaching character limit"),
      errors |-> errors,
      characterCount |-> characterCount]

\* getCharacterCountColor(count)
getCharacterCountColor(count) ==
  IF count >= MAX_CHARACTERS THEN "text-red-600"
  ELSE IF count >= WARNING_THRESHOLD THEN "text-yellow-600"
  ELSE "text-gray-500"

\* getCharacterCountMessage(count): the template and the number it shows.
getCharacterCountMessage(count) ==
  LET remaining == MAX_CHARACTERS - count
  IN IF count >= MAX_CHARACTERS
     THEN [text |-> "Exceeded by n characters",
           n |-> IF remaining < 0 THEN -remaining ELSE remaining]
     ELSE IF count >= WARNING_THRESHOLD
     THEN [text |-> "n characters remaining", n |-> remaining]
     ELSE [text |-> "n / 5000 characters", n |-> count]

\* What is typed into the textarea: no character, or one or two runs of
\* characters.
TypedContents ==
  LET runs == {Run(c, n) : c \in {"x", "nl", "emo"},
                           n \in {1, 1001, 2501, 4499, 4500, 4999, 5000, 5001,
                                  50001}}
  IN {Str(<<>>)} \cup {Str(<<a>>) : a \in runs}
     \cup {Str(<<p[1], p[2]>>) : p \in {q \in runs \X runs : q[1].c # q[2].c}}

WidgetTyped ==
  /\ StoreInit
  /\ sanitizeArg = Null
  /\ sanitized = Pending
  /\ HookInit
  /\ textareaContent \in TypedContents
  /\ validation = NotRendered
  /\ characterCountColor = NotRendered
  /\ characterCountMessage = NotRendered
  /\ RetryInit
  /\ CacheInit

\* A render of TextWidget.
Render ==
  /\ validation = NotRendered
  /\ validation' = validateWidgetContent(textareaContent)
  /\ characterCountColor' =
       getCharacterCountColor(validateWidgetContent(textareaContent).characterCount)
  /\ characterCountMessage' =
       getCharacterCountMessage(validateWidgetContent(textareaContent).characterCount)
  /\ UNCHANGED <<textareaContent, storeVars, sanitizerVars, hookVars, retryVars, cacheVars>>

WidgetSpec == WidgetTyped /\ [][Render]_vars

-----------------------------------------------------------------------------
(* Providers: the retry functions of the QueryClient defaults               *)
(* (src/src/lib/validation.ts), applied to the errors of the store          *)

\* The StorageErrors of storage.ts with their messages; an interpolated part
\* is given one of its values.
StorageErrors ==
  {[code |-> "INVALID_TYPE", message |-> "Content must be a string"],
   [code |-> "PARSE_ERROR",
    message |-> "Failed to parse stored data and no backup available"],
   [code |-> "STORAGE_UNAVAILABLE", message |-> "localStorage is not available"],
   [code |-> "INVALID_INPUT", message |-> "Widgets must be an array"],
   [code |-> "INVALID_WIDGET", message |-> "Invalid widget: unknown"],
   [code |-> "QUOTA_EXCEEDED", message |-> "Storage quota exceeded"],
   [code |-> "SAVE_ERROR",
    message |-> "Failed to save widgets: QuotaExceededError: The quota has been exceeded."],
   [code |-> "INVALID_ID", message |-> "Widget ID must be a non-empty string"],
   [code |-> "INVALID_CONTENT", message |-> "Content must be a string"],
   [code |-> "UPDATE_ERROR",
    message |-> "Failed to update widget: TypeError: widgets.findIndex is not a function"],
   [code |-> "DELETE_ERROR",
    message |-> "Failed to delete widget: TypeError: widgets.find is not a function"]}

\* error.message.toLowerCase().includes(needle)
MessageIncludes(error, needle) ==
  LET m == error.message
      upper == "ABCDEFGHIJKLMNOPQRSTUVWXYZ"
      lower == "abcdefghijklmnopqrstuvwxyz"
      low(ch) == IF \E k \in 1..26 : SubSeq(upper, k, k) = ch
                 THEN LET k == CHOOSE k \in 1..26 : SubSeq(upper, k, k) = ch
                      IN SubSeq(lower, k, k)
                 ELSE ch
      lowered[i \in 0..Len(m)] ==
        IF i = 0 THEN "" ELSE lowered[i - 1] \o low(SubSeq(m, i, i))
      message == lowered[Len(m)]
  IN \E i \in 1..(Len(message) - Len(needle) + 1) :
       SubSeq(message, i, i + Len(needle) - 1) = needle

\* defaultOptions.queries.retry
RetryQuery(failureCount, error) ==
  IF \/ MessageIncludes(error, "storage_unavailable")
     \/ MessageIncludes(error, "invalid_type")
     \/ MessageIncludes(error, "quota_exceeded")
  THEN FALSE
  ELSE failureCount < 2

\* defaultOptions.mutations.retry
RetryMutation(failureCount, error) ==
  IF \/ MessageIncludes(error, "invalid_")
     \/ MessageIncludes(error, "quota_exceeded")
     \/ MessageIncludes(error, "storage_unavailable")
  THEN FALSE
  ELSE failureCount < 1

\* An attempt of a query or of a mutation fails with a StorageError: the
\* retry function is asked with the number of failures so far, and the
\* operation is run again when it answers true.
AttemptFails ==
  /\ IF failures = <<>> THEN TRUE ELSE failures[Len(failures)].retried
  /\ operation' \in (IF operation = "none" THEN {"query", "mutation"}
                     ELSE {operation})
  /\ \E error \in StorageErrors :
       failures' = Append(failures,
         [error |-> error,
          retried |-> IF operation' = "query"
                      THEN RetryQuery(Len(failures), error)
                      ELSE RetryMutation(Len(failures), error)])
  /\ UNCHANGED <<storeVars, sanitizerVars, hookVars, widgetVars, cacheVars>>

RetrySpec == Init /\ [][AttemptFails]_vars

-----------------------------------------------------------------------------
(* useWidgets: the ['widgets'] query, the update and delete mutations *)

\* A mutation that leaves the cache as it is when the store call rejects.
SettleWithoutRollback(p) ==
  /\ mutation[p].state = "pending"
  /\ call[p].pc = "done"
  /\ LET m == mutation[p]
         result == call[p].result
         error == CHOOSE e \in StorageErrors : e.code = result.code
     IN IF result.status = "rejected" /\ RetryMutation(m.failureCount, error)
        THEN /\ mutation' = [mutation EXCEPT ![p].failureCount = @ + 1]
             /\ call' = [call EXCEPT ![p] =
                  [Begin(p, call[p].op, "get") EXCEPT
                     !.id = call[p].id, !.content = call[p].content]]
             /\ UNCHANGED <<queryData, query>>
        ELSE /\ queryData' = queryData
             /\ query' = [query EXCEPT !.fetching = TRUE, !.failureCount = 0]
             /\ mutation' = [mutation EXCEPT ![p] =
                  [state |-> "idle", kind |-> "none", id |-> Null,
                   content |-> Null, previousWidgets |-> Undefined,
                   patched |-> Undefined, failureCount |-> 0,
                   settled |-> result.status,
                   rollback |->
                     IF result.status = "resolved"
                        \/ m.previousWidgets = Undefined THEN "none"
                     ELSE IF queryData' = m.previousWidgets THEN "restored"
                     ELSE "differs",
                   overlapped |-> m.overlapped]]
             /\ call' = [call EXCEPT ![p] = IdleCall]
  /\ UNCHANGED <<primary, backup, available, now, lastSaved>>
  /\ UNCHANGED <<sanitizerVars, hookVars, widgetVars, retryVars>>

\* updateWidgetMutation.mutate({id, content}) or deleteWidgetMutation.mutate(id):
\* onMutate cancels the fetch in flight, keeps the cached list as
\* previousWidgets and, when there is one, puts the patched list in the
\* cache; then mutationFn starts the store call. Each caller makes one
\* mutation. History: patched is the cached list as onMutate leaves it,
\* overlapped tells whether the other mutation was pending meanwhile.
onMutate(p) ==
  /\ mutation[p].state = "idle"
  /\ mutation[p].settled = "none"
  /\ Idle(p)
  /\ \E v \in ({"update"} \X SampleIds \X {Dirty})
              \cup ({"delete"} \X SampleIds \X {Null}) :
       LET kind == v[1]
           id == v[2]
           content == v[3]
           previousWidgets == queryData
           updatedWidgets ==
             IF kind = "update"
             THEN ArrayOf([i \in 1..Len(previousWidgets.items) |->
                    IF previousWidgets.items[i].id = id
                    THEN [previousWidgets.items[i] EXCEPT
                            !.content = content, !.updatedAt = DateOf(now)]
                    ELSE previousWidgets.items[i]])
             ELSE ArrayOf(FilterOut(previousWidgets.items, id))
           others == \E q \in Racers \ {p} : mutation[q].state = "pending"
       IN /\ queryData' = IF previousWidgets # Undefined THEN updatedWidgets
                          ELSE queryData
          /\ query' = [query EXCEPT !.fetching = FALSE]
          /\ mutation' = [q \in Racers |->
               IF q = p
               THEN [state |-> "pending", kind |-> kind, id |-> id,
                     content |-> content, previousWidgets |-> previousWidgets,
                     patched |-> queryData', failureCount |-> 0,
                     settled |-> "none", rollback |-> "none",
                     overlapped |-> others]
               ELSE IF mutation[q].state = "pending"
               THEN [mutation[q] EXCEPT !.overlapped = TRUE]
               ELSE mutation[q]]
          /\ call' = [call EXCEPT ![p] =
               IF kind = "update"
               THEN [Begin(p, "updateWidget", "get") EXCEPT
                       !.id = id, !.content = sanitizeContent(content).value]
               ELSE [Begin(p, "deleteWidget", "get") EXCEPT !.id = id]]
  /\ UNCHANGED <<primary, backup, available, now, lastSaved>>
  /\ UNCHANGED <<sanitizerVars, hookVars, widgetVars, retryVars>>

\* The store call of a mutation has settled. A rejection is handed to the
\* retry function of the mutations, which may have mutationFn run again;
\* otherwise onError puts previousWidgets back when there is one, and
\* onSettled invalidates the query, which is fetched afresh. History:
\* rollback tells whether the cached list that onError leaves is
\* previousWidgets.
Settle(p) ==
  /\ mutation[p].state = "pending"
  /\ call[p].pc = "done"
  /\ LET m == mutation[p]
         result == call[p].result
         error == CHOOSE e \in StorageErrors : e.code = result.code
     IN IF result.status = "rejected" /\ RetryMutation(m.failureCount, error)
        THEN /\ mutation' = [mutation EXCEPT ![p].failureCount = @ + 1]
             /\ call' = [call EXCEPT ![p] =
                  [Begin(p, call[p].op, "get") EXCEPT
                     !.id = call[p].id, !.content = call[p].content]]
             /\ UNCHANGED <<queryData, query>>
        ELSE /\ queryData' = IF result.status = "rejected"
                                /\ m.previousWidgets # Undefined
                             THEN m.previousWidgets ELSE queryData
             /\ query' = [query EXCEPT !.fetching = TRUE, !.failureCount = 0]
             /\ mutation' = [mutation EXCEPT ![p] =
                  [state |-> "idle", kind |-> "none", id |-> Null,
                   content |-> Null, previousWidgets |-> Undefined,
                   patched |-> Undefined, failureCount |-> 0,
                   settled |-> result.status,
                   rollback |->
                     IF result.status = "resolved"
                        \/ m.previousWidgets = Undefined THEN "none"
                     ELSE IF queryData' = m.previousWidgets THEN "restored"
                     ELSE "differs",
                   overlapped |-> m.overlapped]]
             /\ call' = [call EXCEPT ![p] = IdleCall]
  /\ UNCHANGED <<primary, backup, available, now, lastSaved>>
  /\ UNCHANGED <<sanitizerVars, hookVars, widgetVars, retryVars>>

\* The timer callback of the getWidgets() of queryFn: the list it resolves
\* with becomes the cached list; a rejection is handed to the retry function
\* of the queries and, when that gives up, leaves the cached list as it is.
FetchCompletes ==
  /\ query.fetching
  /\ LET got == GetWidgetsOutcome.result
         error == CHOOSE e \in StorageErrors : e.code = got.code
     IN IF got.status = "resolved"
        THEN /\ queryData' = got.value
             /\ query' = [fetching |-> FALSE, failureCount |-> 0,
                          status |-> "success"]
        ELSE /\ queryData' = queryData
             /\ query' = IF RetryQuery(query.failureCount, error)
                         THEN [query EXCEPT !.failureCount = @ + 1]
                         ELSE [fetching |-> FALSE, failureCount |-> 0,
                               status |-> "error"]
  /\ UNCHANGED <<storeVars, mutation>>
  /\ UNCHANGED <<sanitizerVars, hookVars, widgetVars, retryVars>>

\* The page with two mutations that may overlap. The setItem of the primary
\* key may throw for the first caller; every other setItem goes through.
\* Before the page loads, something else may have left a text under the
\* primary key, with no backup made yet.
CacheSpec ==
  Init /\ [][\/ \E p \in Racers :
                  \/ onMutate(p)
                  \/ GetStep(p)
                  \/ Settle(p)
             \/ (/\ SaveStepFailing("p1")
                 /\ STORAGE_BACKUP_KEY \notin {call'["p1"].failed[i] :
                                                i \in 1..Len(call'["p1"].failed)})
             \/ SaveStep("p2")
             \/ FetchCompletes
             \/ (/\ query.status = "pending"
                 /\ query.failureCount = 0
                 /\ \A p \in Racers : mutation[p].settled = "none"
                 /\ Store(primary, backup) = Store(NoItem, NoItem)
                 /\ SetStore
                 /\ backup' = NoItem)]_vars

-----------------------------------------------------------------------------
(* Properties *)

\* A call that has settled. While a call is settled nothing else touches
\* storage, so the keys hold what the call's last step read or wrote.
Done(p, op) == call[p].pc = "done" /\ call[p].op = op
ResolvedList(p) == call[p].result.status = "resolved" /\ call[p].result.value.t = "array"
Items(p) == call[p].result.value.items

IdsOf(ws) == [i \in 1..Len(ws) |-> ws[i].id]

\* A widget of valid shape: id and content are strings, createdAt and
\* updatedAt are valid Dates.
IsValidDate(d) == d.t = "Date" /\ d.valid
ValidShape(w) ==
  /\ w.t = "object"
  /\ w.id.t = "string"
  /\ w.content.t = "string"
  /\ IsValidDate(w.createdAt)
  /\ IsValidDate(w.updatedAt)

\* A stored element that has the four required fields.
HasRequiredFields(e) ==
  /\ e.t = "object"
  /\ e.id.t = "string"
  /\ e.content.t = "string"
  /\ e.createdAt.t = "string"
  /\ e.updatedAt.t = "string"

Undecodable(stored) == stored.kind \in {"garbage", "nonarray", "backup"}

\* The backup record is missing, does not decode, has no widgets array, or
\* lists no element with the required fields.
BackupYieldsNothing ==
  \/ backup.kind # "backup"
  \/ \A i \in 1..Len(backup.widgets) : ~HasRequiredFields(backup.widgets[i])

\* The primary key holds what the last saveWidgets(ws) wrote.
JustSaved == lastSaved.kind = "saved" /\ lastSaved.primaryIntact

\* C1: saveWidgets(ws) for widgets of valid shape followed by getWidgets()
\* returns as many widgets, the i-th with the id, the content and the
\* timestamps of ws[i].
C1_RoundTrip ==
  \A p \in Procs :
    (/\ Done(p, "getWidgets")
     /\ available
     /\ JustSaved
     /\ \A i \in 1..Len(lastSaved.widgets) : ValidShape(lastSaved.widgets[i]))
    => /\ ResolvedList(p)
       /\ Len(Items(p)) = Len(lastSaved.widgets)
       /\ \A i \in 1..Len(lastSaved.widgets) :
            /\ Items(p)[i].id = lastSaved.widgets[i].id
            /\ Items(p)[i].content = lastSaved.widgets[i].content
            /\ Items(p)[i].createdAt = lastSaved.widgets[i].createdAt
            /\ Items(p)[i].updatedAt = lastSaved.widgets[i].updatedAt

\* C2: with text that is not JSON, or JSON that is not an array, under the
\* primary key and no backup record, getWidgets() resolves with the empty list.
C2_CorruptYieldsEmpty ==
  \A p \in Procs :
    (/\ Done(p, "getWidgets")
     /\ primary.kind \in {"garbage", "nonarray"}
     /\ backup = NoItem)
    => call[p].result = Resolved(ArrayOf(<<>>))

C4_BackupRecovery ==
  \A p \in Procs :
    (/\ Done(p, "getWidgets")
     /\ available
     /\ lastSaved.kind = "saved"
     /\ Len(lastSaved.widgets) > 0
     /\ lastSaved.backupWritten
     /\ lastSaved.backupIntact
     /\ ~lastSaved.primaryIntact
     /\ Undecodable(primary))
    => /\ ResolvedList(p)
       /\ IdsOf(Items(p)) = IdsOf(lastSaved.widgets)

\* C5: getWidgets() resolves with the empty list when the primary key is
\* absent or empty or storage is unavailable, and whatever it rejects with is
\* a StorageError with recoverable = false.
C5_EmptyNotError ==
  \A p \in Procs :
    Done(p, "getWidgets")
    => /\ (~available \/ primary.kind \in {"absent", "empty"})
            => call[p].result = Resolved(ArrayOf(<<>>))
       /\ call[p].result.status = "rejected"
            => /\ ~call[p].result.recoverable
               /\ call[p].result.code = "PARSE_ERROR"

C5_Witness ==
  \E p \in Procs :
    /\ Done(p, "getWidgets")
    /\ ~available
    /\ primary.kind = "garbage"
    /\ BackupYieldsNothing
    /\ call[p].result = Resolved(ArrayOf(<<>>))

\* C6: when the primary key holds an array in which some element has id and
\* content but no createdAt and updatedAt, getWidgets() returns one entry per
\* stored element, in stored order, each with a Date as createdAt.
C6_PassThrough ==
  \A p \in Procs :
    (/\ Done(p, "getWidgets")
     /\ available
     /\ primary.kind = "array"
     /\ \A i \in 1..Len(primary.items) : primary.items[i].t = "object"
     /\ \E i \in 1..Len(primary.items) :
          /\ primary.items[i].id.t = "string"
          /\ primary.items[i].content.t = "string"
          /\ primary.items[i].createdAt = Undefined
          /\ primary.items[i].updatedAt = Undefined)
    => /\ ResolvedList(p)
       /\ IdsOf(Items(p)) = IdsOf(primary.items)
       /\ \A i \in 1..Len(Items(p)) : Items(p)[i].createdAt.t = "Date"

\* C7: when the primary key decodes as an array, getWidgets() resolves, does
\* not read the backup key, and returns the elements that have the required
\* fields, in stored order, whatever the other elements are.
C7_ArrayNeverFails ==
  \A p \in Procs :
    (/\ Done(p, "getWidgets")
     /\ available
     /\ primary.kind = "array")
    => /\ ResolvedList(p)
       /\ ~call[p].readBackup
       /\ IdsOf(Items(p)) = IdsOf(SelectSeq(primary.items, HasRequiredFields))

C7_Witness ==
  \E p \in Procs :
    /\ Done(p, "getWidgets")
    /\ available
    /\ primary.kind = "array"
    /\ Len(primary.items) = 2
    /\ ~HasRequiredFields(primary.items[1])
    /\ HasRequiredFields(primary.items[2])
    /\ backup.kind = "backup"
    /\ Len(Items(p)) = 1

\* C8: updateWidget and deleteWidget with a non-empty id that no widget of
\* the list the store reads has: the call resolves with null, respectively
\* false, and both keys hold what they held before the call.
C8_UnknownIdNoOp ==
  \A p \in Procs :
    (/\ call[p].pc = "done"
     /\ call[p].op \in {"updateWidget", "deleteWidget"}
     /\ call[p].loaded.t = "array"
     /\ \A i \in 1..Len(call[p].loaded.items) :
          call[p].loaded.items[i].id # call[p].id)
    => /\ call[p].result =
            (IF call[p].op = "updateWidget" THEN Resolved(Null)
             ELSE Resolved(Bool(FALSE)))
       /\ primary = call[p].before.primary
       /\ backup = call[p].before.backup

C8_Witness ==
  \E p \in Procs :
    /\ Done(p, "updateWidget")
    /\ call[p].loaded.t = "array"
    /\ Len(call[p].loaded.items) > 0
    /\ call[p].result = Resolved(Null)
    /\ primary.kind = "array"

RECURSIVE IsSubsequence(_, _)
IsSubsequence(a, b) ==
  IF a = <<>> THEN TRUE
  ELSE IF b = <<>> THEN FALSE
  ELSE IF Head(a) = Head(b) THEN IsSubsequence(Tail(a), Tail(b))
  ELSE IsSubsequence(a, Tail(b))

Persisted(p) ==
  /\ call[p].pc = "done"
  /\ call[p].result.status = "resolved"
  /\ call[p].writes # <<>>
  /\ call[p].writes[Len(call[p].writes)] = STORAGE_KEY

C10_CodePointCap ==
  (sanitized # Pending /\ IsString(sanitizeArg))
  => LET normalized == Trim(NormalizeWhitespace(RemoveControl(sanitizeArg.v)))
     IN /\ ~sanitized.threw
        /\ CodePoints(sanitized.value.v) <= MAX_CONTENT_LENGTH
        /\ CodePoints(normalized) > MAX_CONTENT_LENGTH
             => CodePoints(sanitized.value.v) = MAX_CONTENT_LENGTH
        /\ CodePoints(normalized) <= MAX_CONTENT_LENGTH
             => sanitized.value.v = normalized

\* The characters of s that are neither control characters nor whitespace.
RECURSIVE Visible(_)
Visible(s) ==
  IF s = <<>> THEN <<>>
  ELSE IF IsControl(Head(s).c) \/ IsWhitespace(Head(s).c)
       THEN Visible(Tail(s))
       ELSE Concat(<<Head(s)>>, Visible(Tail(s)))

\* getWidgets() has settled right after a saveWidgets(ws) of widgets of
\* valid shape.
LoadedAfterSave(p) ==
  /\ Done(p, "getWidgets")
  /\ available
  /\ JustSaved
  /\ \A i \in 1..Len(lastSaved.widgets) : ValidShape(lastSaved.widgets[i])

SaveSettled(p) ==
  /\ call[p].pc = "done"
  /\ \/ call[p].op = "saveWidgets"
     \/ call[p].op \in {"addWidget", "updateWidget", "deleteWidget"}
        /\ call[p].widgets.t = "array"

Absent(x) == x \in {Undefined, Null}

\* An element that fails the shape check of saveWidgets.
FailsShapeCheck(w) ==
  \/ w.t # "object"
  \/ w.id.t # "string"
  \/ w.content.t # "string"
  \/ Absent(w.createdAt)
  \/ Absent(w.updatedAt)

KeysUntouched(p) ==
  /\ primary = call[p].before.primary
  /\ backup = call[p].before.backup
  /\ call[p].writes = <<>>

\* C12: a saveWidgets whose argument is not an array, or has an element that
\* fails the shape check, is rejected with a non-recoverable error
\* (INVALID_INPUT, respectively INVALID_WIDGET, when storage is usable) and
\* writes neither key, also when earlier elements are valid.
C12_AllOrNothing ==
  \A p \in Procs :
    LET c == call[p]
    IN (/\ SaveSettled(p)
        /\ \/ c.widgets.t # "array"
           \/ \E i \in 1..Len(c.widgets.items) : FailsShapeCheck(c.widgets.items[i]))
       => /\ c.result.status = "rejected"
          /\ ~c.result.recoverable
          /\ available
               => c.result.code = (IF c.widgets.t # "array" THEN "INVALID_INPUT"
                                   ELSE "INVALID_WIDGET")
          /\ KeysUntouched(p)

C12_Witness ==
  \E p \in Procs :
    /\ SaveSettled(p)
    /\ available
    /\ call[p].widgets.t = "array"
    /\ Len(call[p].widgets.items) = 2
    /\ ~FailsShapeCheck(call[p].widgets.items[1])
    /\ FailsShapeCheck(call[p].widgets.items[2])
    /\ call[p].result = Rejected("INVALID_WIDGET", FALSE)
    /\ primary.kind = "array"
    /\ Len(primary.items) = 1
    /\ backup.kind = "backup"

\* The bytes of the serialized sanitized list of a saveWidgets call.
SerializedSize(p) ==
  DataSize(JsonOfWidgets(SanitizedWidgets(call[p].widgets.items)))

ValidSave(p) ==
  /\ SaveSettled(p)
  /\ available
  /\ call[p].widgets.t = "array"
  /\ \A i \in 1..Len(call[p].widgets.items) :
       ~FailsShapeCheck(call[p].widgets.items[i])

\* C13: a saveWidgets of valid widgets is rejected with QUOTA_EXCEEDED
\* (recoverable) exactly when the serialized sanitized list has more than
\* 5 * 1024 * 1024 bytes; a list of at most that size is saved, and a call
\* rejected for the quota writes neither key.
C13_QuotaIffExceeds ==
  \A p \in Procs :
    ValidSave(p)
    => /\ call[p].result = Rejected("QUOTA_EXCEEDED", TRUE)
            <=> SerializedSize(p) > MAX_STORAGE_SIZE
       /\ SerializedSize(p) <= MAX_STORAGE_SIZE
            => /\ call[p].result.status = "resolved"
               /\ primary = ArrayText(JsonOfWidgets(SanitizedWidgets(call[p].widgets.items)))
       /\ call[p].result.status = "rejected" => KeysUntouched(p)

\* C14: a saveWidgets that passes validation and the quota check writes the
\* backup record {widgets, timestamp, version: '1.0'} before the primary key
\* and the primary key last; it resolves whenever the primary write goes
\* through, also when the backup write failed, and fails with SAVE_ERROR only
\* when the primary write failed.
C14_BackupThenPrimary ==
  \A p \in Procs :
    (ValidSave(p) /\ SerializedSize(p) < MAX_STORAGE_SIZE)
    => LET c == call[p]
           saved == JsonOfWidgets(SanitizedWidgets(c.widgets.items))
           wrote(key) == \E i \in 1..Len(c.writes) : c.writes[i] = key
           threw(key) == \E i \in 1..Len(c.failed) : c.failed[i] = key
       IN /\ c.writes \in {<<>>, <<STORAGE_BACKUP_KEY>>, <<STORAGE_KEY>>,
                           <<STORAGE_BACKUP_KEY, STORAGE_KEY>>}
          /\ wrote(STORAGE_BACKUP_KEY) <=> ~threw(STORAGE_BACKUP_KEY)
          /\ wrote(STORAGE_KEY) <=> ~threw(STORAGE_KEY)
          /\ wrote(STORAGE_BACKUP_KEY)
               => /\ backup.kind = "backup"
                  /\ backup.widgets = saved
                  /\ backup.version = "1.0"
          /\ ~wrote(STORAGE_BACKUP_KEY) => backup = c.before.backup
          /\ ~threw(STORAGE_KEY)
               => /\ c.result.status = "resolved"
                  /\ primary = ArrayText(saved)
          /\ threw(STORAGE_KEY)
               => /\ c.result = Rejected("SAVE_ERROR", TRUE)
                  /\ primary = c.before.primary

C14_Witness ==
  \E p \in Procs :
    /\ ValidSave(p)
    /\ call[p].op = "saveWidgets"
    /\ Len(call[p].widgets.items) > 0
    /\ call[p].failed = <<STORAGE_BACKUP_KEY>>
    /\ call[p].writes = <<STORAGE_KEY>>
    /\ call[p].result.status = "resolved"
    /\ backup = NoItem

\* C15: when addWidget(w) has resolved, getWidgets() returns the list the
\* call read followed by w with its content sanitized, and the call has
\* resolved with w as the caller gave it.
C15_AddAppends ==
  \A p \in Procs :
    (Done(p, "addWidget") /\ call[p].result.status = "resolved")
    => LET w == call[p].widget
           previous == call[p].loaded.items
           next == GetWidgetsOutcome.result
       IN /\ call[p].result.value = w
          /\ next.status = "resolved"
          /\ next.value.items =
               previous \o <<[w EXCEPT !.content = sanitizeContent(w.content).value]>>

\* C16: when updateWidget(id, content) for an id the store holds has
\* resolved, getWidgets() returns the list the call read with one change: the
\* first widget with that id has the sanitized content and the current time
\* as updatedAt. Its id and createdAt, the number of widgets and every other
\* widget are as before, and the call has resolved with the updated widget.
C16_UpdatesExactlyOne ==
  \A p \in Procs :
    (/\ Done(p, "updateWidget")
     /\ call[p].loaded.t = "array"
     /\ \E i \in 1..Len(call[p].loaded.items) :
          call[p].loaded.items[i].id = call[p].id)
    => LET c == call[p]
           previous == c.loaded.items
           k == CHOOSE i \in 1..Len(previous) :
                  /\ previous[i].id = c.id
                  /\ \A j \in 1..(i - 1) : previous[j].id # c.id
           updated == [previous[k] EXCEPT !.content = c.content,
                                          !.updatedAt = DateOf(now)]
           next == GetWidgetsOutcome.result
       IN /\ c.result = Resolved(updated)
          /\ c.content = sanitizeContent(c.content).value
          /\ next.status = "resolved"
          /\ next.value.items = [previous EXCEPT ![k] = updated]

\* C17: every widget of the list the store has persisted has
\* updatedAt >= createdAt.
C17_UpdatedNotBeforeCreated ==
  JustSaved
  => /\ primary.kind = "array"
     /\ \A i \in 1..Len(primary.items) :
          LET e == primary.items[i]
          IN (e.createdAt.t = "string" /\ e.updatedAt.t = "string")
             => e.updatedAt.ms >= e.createdAt.ms

\* C18: when deleteWidget(id) for an id the store holds has settled, it has
\* resolved with true and the persisted list is the list the call read
\* without the first widget with that id: one element less, also when
\* several widgets share the id.
C18_DeletesFirstMatchOnly ==
  \A p \in Procs :
    (/\ Done(p, "deleteWidget")
     /\ call[p].loaded.t = "array"
     /\ \E i \in 1..Len(call[p].loaded.items) :
          call[p].loaded.items[i].id = call[p].id)
    => LET c == call[p]
           previous == IdsOf(c.loaded.items)
           k == CHOOSE i \in 1..Len(previous) :
                  /\ previous[i] = c.id
                  /\ \A j \in 1..(i - 1) : previous[j] # c.id
       IN /\ c.result = Resolved(Bool(TRUE))
          /\ primary.kind = "array"
          /\ Len(primary.items) = Len(previous) - 1
          /\ IdsOf(primary.items) =
               SubSeq(previous, 1, k - 1) \o SubSeq(previous, k + 1, Len(previous))

\* The widget a mutation is about, and whether the primary key shows the
\* mutation.
Target(p) ==
  IF call[p].op = "addWidget" THEN call[p].widget.id ELSE call[p].id

ChangePresent(p) ==
  /\ primary.kind = "array"
  /\ CASE call[p].op = "addWidget" ->
            \E i \in 1..Len(primary.items) : primary.items[i].id = Target(p)
       [] call[p].op = "updateWidget" ->
            \E i \in 1..Len(primary.items) :
              /\ primary.items[i].id = Target(p)
              /\ primary.items[i].content = call[p].content
       [] call[p].op = "deleteWidget" ->
            \A i \in 1..Len(primary.items) : primary.items[i].id # Target(p)
       [] OTHER -> TRUE

\* Two mutations of different widgets, with valid timestamps throughout, have
\* both resolved after writing the primary key.
BothResolved(p, q) ==
  /\ p # q
  /\ Persisted(p)
  /\ Persisted(q)
  /\ Target(p) # Target(q)
  /\ \A r \in {p, q} :
       /\ call[r].op \in {"addWidget", "updateWidget", "deleteWidget"}
       /\ \A i \in 1..Len(call[r].loaded.items) : ValidShape(call[r].loaded.items[i])
       /\ call[r].op = "addWidget" => ValidShape(call[r].widget)

\* C19: of two mutations of different widgets that have both resolved, each
\* one's change is in the persisted list when the second one started after
\* the first had settled. (The witness is an interleaving of two overlapping
\* mutations that both resolve and leave the first writer's change out.)
C19_NoLossWhenAwaited ==
  \A p, q \in Racers :
    (/\ BothResolved(p, q)
     /\ ~call[p].concurrent
     /\ ~call[q].concurrent)
    => ChangePresent(p) /\ ChangePresent(q)

C19_Witness ==
  \E p, q \in Racers :
    /\ BothResolved(p, q)
    /\ call[q].concurrent
    /\ call[p].writes # <<>>
    /\ ~ChangePresent(p)
    /\ ChangePresent(q)

\* The last edit made, and whether every edit since the timer was started
\* afresh went to the widget of the last one.
LastEdit == burst[Len(burst)]
OneWidgetBurst ==
  /\ burst # <<>>
  /\ \A i \in 1..Len(burst) : burst[i].id = LastEdit.id
  /\ CallsMutate(LastEdit.id, LastEdit.content)

C21_Taxonomy ==
  \A p \in Procs :
    (call[p].pc = "done" /\ call[p].result.status = "rejected")
    => /\ call[p].result.code \in {"INVALID_TYPE", "INVALID_INPUT",
                                   "INVALID_WIDGET", "INVALID_ID",
                                   "INVALID_CONTENT"}
          => ~call[p].result.recoverable
       /\ call[p].result.code \in {"STORAGE_UNAVAILABLE", "QUOTA_EXCEEDED"}
          => call[p].result.recoverable

\* C22: a saveWidgets, addWidget, updateWidget or deleteWidget call made
\* while localStorage is unavailable settles as a rejection.
C22_WriteFailuresSurface ==
  \A p \in Procs :
    (/\ call[p].pc = "done"
     /\ call[p].op \in {"saveWidgets", "addWidget", "updateWidget",
                        "deleteWidget"}
     /\ ~isStorageAvailable)
    => call[p].result.status = "rejected"

\* C23: with n the number of characters of the content: characterCount = n;
\* for n < 4500 the result is valid with no errors; for 4500 <= n < 5000 it is
\* valid with exactly the approaching-limit warning; for n > 5000 it is
\* invalid with the maximum-length error; and it is invalid exactly when
\* errors holds an entry other than the warning.
C23_ValidatorBands ==
  validation # NotRendered =>
    LET text == textareaContent.v
        n == CodePoints(text)
        errors == validation.errors
    IN /\ validation.characterCount = n
       /\ n < WARNING_THRESHOLD
          => (validation.isValid /\ errors = <<>>)
       /\ (n >= WARNING_THRESHOLD /\ n < MAX_CHARACTERS)
          => (validation.isValid /\ errors = <<"Approaching character limit">>)
       /\ n > MAX_CHARACTERS
          => /\ ~validation.isValid
             /\ \E i \in 1..Len(errors) :
                  errors[i] = "Content exceeds maximum length"
       /\ ~validation.isValid
          <=> \E i \in 1..Len(errors) :
                errors[i] # "Approaching character limit"

\* C30: with n the character count of the render: the indicator is red with
\* 'Exceeded by (n - 5000) characters' exactly when the validator reports the
\* maximum-length error, yellow with '(5000 - n) characters remaining'
\* exactly when it reports the approaching-limit warning, and otherwise gray
\* with 'n / 5000 characters'.
C30_IndicatorAgrees ==
  validation # NotRendered =>
    LET n == validation.characterCount
        reports(e) == \E i \in 1..Len(validation.errors) :
                        validation.errors[i] = e
        tooLong == reports("Content exceeds maximum length")
        warning == reports("Approaching character limit")
    IN /\ (/\ characterCountColor = "text-red-600"
           /\ characterCountMessage =
                [text |-> "Exceeded by n characters", n |-> n - MAX_CHARACTERS])
          <=> tooLong
       /\ (/\ characterCountColor = "text-yellow-600"
           /\ characterCountMessage =
                [text |-> "n characters remaining", n |-> MAX_CHARACTERS - n])
          <=> warning
       /\ (~tooLong /\ ~warning)
          => /\ characterCountColor = "text-gray-500"
             /\ characterCountMessage =
                  [text |-> "n / 5000 characters", n |-> n]

\* C26: what sanitizeContent returns is a fixed point of sanitizeContent, with
\* no whitespace at either end: sanitizing it again, as the next load does
\* with stored content, gives the same string.
C26_SanitizeIdempotent ==
  (sanitized # Pending /\ ~sanitized.threw)
  => LET s == sanitized.value.v
     IN /\ sanitizeContent(sanitized.value).value = sanitized.value
        /\ s # <<>> => (~IsWhitespace(s[1].c) /\ ~IsWhitespace(s[Len(s)].c))

\* C27: when a saveWidgets has rejected, the primary key and the backup key
\* hold what they held when the call started.
C27_FailedSaveChangesNothing ==
  \A p \in Procs :
    (SaveSettled(p) /\ call[p].result.status = "rejected")
    => /\ primary = call[p].before.primary
       /\ backup = call[p].before.backup

C29_EveryEditedWidgetSaved ==
  (/\ mounted
   /\ ~cancelled
   /\ ~timer.set
   /\ \A j \in 1..Len(burst) : CallsMutate(burst[j].id, burst[j].content))
  => \A i \in 1..Len(burst) :
       (\A j \in (i + 1)..Len(burst) : burst[j].id # burst[i].id)
       => <<burst[i].id, burst[i].content>> \in mutated

\* C24: a failure with a code INVALID_*, QUOTA_EXCEEDED or STORAGE_UNAVAILABLE
\* is not retried; a mutation is retried at most once and a query at most
\* twice.
C24_RetryPolicy ==
  LET retries == {i \in 1..Len(failures) : failures[i].retried}
  IN /\ \A i \in 1..Len(failures) :
          failures[i].error.code \in
            {"INVALID_TYPE", "INVALID_INPUT", "INVALID_WIDGET", "INVALID_ID",
             "INVALID_CONTENT", "QUOTA_EXCEEDED", "STORAGE_UNAVAILABLE"}
          => ~failures[i].retried
     /\ operation = "mutation" => Cardinality(retries) <= 1
     /\ operation = "query" => Cardinality(retries) <= 2


\* C25: while an update or a delete mutation that found a cached list is
\* pending, the list onMutate left in the cache is the snapshot patched (the
\* widgets with the id carry the new content, or are gone, the others are as
\* they were); when the store call was rejected for good, onError left the
\* snapshot in the cache; and when no mutation is pending and the last fetch
\* has succeeded, the cached list is the list getWidgets() resolves with,
\* also after overlapping mutations.
C25_OptimisticUpdate ==
  /\ \A p \in Racers :
       LET m == mutation[p]
           old == m.previousWidgets.items
           new == m.patched.items
       IN /\ (m.state = "pending" /\ m.previousWidgets # Undefined)
             => IF m.kind = "update"
                THEN /\ Len(new) = Len(old)
                     /\ \A i \in 1..Len(old) :
                          IF old[i].id = m.id
                          THEN /\ new[i].id = m.id
                               /\ new[i].content = m.content
                               /\ new[i].createdAt = old[i].createdAt
                          ELSE new[i] = old[i]
                ELSE /\ IsSubsequence(new, old)
                     /\ \A i \in 1..Len(new) : new[i].id # m.id
                     /\ Len(new) = Cardinality({i \in 1..Len(old) :
                                                 old[i].id # m.id})
          /\ m.rollback # "differs"
  /\ (/\ \A p \in Racers : mutation[p].state = "idle"
      /\ ~query.fetching
      /\ query.status = "success")
     => queryData = GetWidgetsOutcome.result.value

\* Two overlapping mutations have settled, one rejected and rolled back, the
\* other saved, and the list was fetched again.
C25_Witness ==
  /\ \A p \in Racers : mutation[p].state = "idle" /\ mutation[p].overlapped
  /\ \E p, q \in Racers : /\ mutation[p].rollback = "restored"
                          /\ mutation[q].settled = "resolved"
  /\ ~query.fetching
  /\ query.status = "success"
  /\ queryData.items # <<>>

====
